---- MODULE Spec2Model ----
(***************************************************************************)
(* The price management page (src/src/pages/PriceManagement.jsx) as a      *)
(* state machine: the store's two tables, and for every browser session    *)
(* that has the page open the component's state and the position of each   *)
(* of its asynchronous functions.  Every await is a step boundary: a step  *)
(* is the store executing one request together with the code that runs     *)
(* when its response arrives, up to the next await.                        *)
(*                                                                         *)
(* The form's onChange edits are part of Submit, which sets newPrice to    *)
(* the submitted values; handleSubmit reads newPrice, currentPrices and    *)
(* user as its render captured them, so a call slot keeps those values.    *)
(* A response that arrives after checkUser has navigated away is still     *)
(* processed by the function that awaits it.  The fields priorInStore and  *)
(* seenAtDeact of a call and the variable histActual record what the store *)
(* held at a step; no action reads them.                                   *)
(***************************************************************************)
EXTENDS Integers, Sequences, FiniteSets, TLC

\* ---------------------------------------------------------------- bounds
Sessions == {"s1", "s2"}
\* The prices a submitted form can hold: above the price of InitialPrices,
\* so that an old price and a new one are told apart.
FormPrices == {2}
\* Rows the coffee_prices table can hold.
MaxRows == 3
\* Store requests that fail in one behaviour.
MaxFailures == 1
\* Slots for handleSubmit invocations of one session that are in flight.
MaxCalls == 2

\* ------------------------------------------------------------- constants
\* price_per_kg: '' of the default form (line 19).
EmptyPrice == 0
PagePath == "/price-management"
NoToast == "none"
ToastAdminRequired == "Admin access required"
ToastCheckUser == "Error checking user permissions"
ToastFetchPrices == "Failed to fetch current prices"
ToastFetchHistory == "Failed to fetch price history"
ToastSuccess == "Price updated successfully"
ToastFailure == "Failed to update price"

\* The users table: read-only for the page.
Users ==
  [alice |-> [id |-> "alice", role |-> "admin"],
   bob |-> [id |-> "bob", role |-> "farmer"]]
\* The authenticated principal of a session; "none": not signed in.
Principals == {"none", "alice", "bob"}
\* useState(null) of line 11.
NoUser == [id |-> "", role |-> ""]
\* undefined, the result of a find that matches nothing.
NoRecord ==
  [price_id |-> 0, coffee_type |-> "", price_per_kg |-> 0,
   is_active |-> FALSE, created_by |-> ""]
\* The form's default state (lines 17-21 and 184-188); currency is the
\* read-only 'PHP' in every record and is left out.
DefaultForm == [coffee_type |-> "raw", price_per_kg |-> EmptyPrice]
\* The coffee_prices table when the first session opens the page: one
\* active raw price, no price for the other type.
InitialPrices ==
  << [price_id |-> 1, coffee_type |-> "raw", price_per_kg |-> 1,
      is_active |-> TRUE, created_by |-> "alice"] >>
\* A call slot with no handleSubmit invocation in it.
IdleCall ==
  [pc |-> "idle", coffee_type |-> "", price_per_kg |-> 0,
   currentPrice |-> NoRecord, user_id |-> "", inserted |-> 0,
   priorInStore |-> {}, seenAtDeact |-> {}]

VARIABLES
  prices,         \* table coffee_prices, in insertion order
  history,        \* table coffee_price_history, in insertion order
  histActual,     \* observation: per history row, the prices of the other
                  \* records of its type that were active when it committed
  principal,      \* the session's authenticated principal
  route,          \* where the session's browser is; "closed" before loading
  user,           \* useState user
  currentPrices,  \* useState currentPrices
  priceHistory,   \* useState priceHistory
  loading,        \* useState loading
  newPrice,       \* useState newPrice (the form)
  cu,             \* position of the checkUser started on mount
  fp,             \* position of the fetchPrices started on mount
  fh,             \* position of the fetchPriceHistory started on mount
  calls,          \* the session's handleSubmit invocations
  failures,       \* store requests that have failed so far
  toast           \* the notice the last step showed

vars ==
  <<prices, history, histActual, principal, route, user, currentPrices,
    priceHistory, loading, newPrice, cu, fp, fh, calls, failures, toast>>

\* --------------------------------------------------------------- helpers
Slots == 1..MaxCalls

Reverse(q) == [i \in 1..Len(q) |-> q[Len(q) + 1 - i]]

\* Two of the five dropdown values of lines 24-30, in the strings' order
\* (.order('coffee_type')).
TypeOrder == <<"dried", "raw">>
CoffeeTypes == {TypeOrder[i] : i \in DOMAIN TypeOrder}

\* The rows of coffee_prices that are active.
ActiveRecords(ps) == {ps[i] : i \in {j \in DOMAIN ps : ps[j].is_active}}
ActiveOfType(ps, t) == {r \in ActiveRecords(ps) : r.coffee_type = t}
ActiveCount(t) == Cardinality(ActiveOfType(prices, t))

\* The active rows of one type, in insertion order.
RowsOfType(ps, t) ==
  SelectSeq(ps, LAMBDA r : r.is_active /\ r.coffee_type = t)
\* rows with its k-th row moved to the front.
WithFirst(rows, k) ==
  <<rows[k]>> \o
    [i \in 1..(Len(rows) - 1) |-> IF i < k THEN rows[i] ELSE rows[i + 1]]
\* The orders in which the store can return the active rows of one type.
\* The order of rows that tie on coffee_type is the store's choice; the
\* page reads only which row of a type comes first (find), so the choice
\* is of the first row and the others follow in insertion order.
TypeReads(ps, t) ==
  LET rows == RowsOfType(ps, t)
  IN IF rows = << >> THEN {<< >>}
     ELSE {WithFirst(rows, k) : k \in 1..Len(rows)}
\* What the select of fetchPrices can return: the active rows ordered by
\* coffee_type.
RECURSIVE ReadsFrom(_, _)
ReadsFrom(ps, k) ==
  IF k > Len(TypeOrder) THEN {<< >>}
  ELSE {a \o b : a \in TypeReads(ps, TypeOrder[k]), b \in ReadsFrom(ps, k + 1)}
SortedReads(ps) == ReadsFrom(ps, 1)

\* What the select of fetchPriceHistory returns: change_date descending.
HistoryRead(hs) == Reverse(hs)

\* currentPrices.find(p => p.coffee_type === newPrice.coffee_type)
FindAnyType(list, t) == IF Len(list) = 0 THEN NoRecord ELSE list[1]
FindCurrentPrice(list, t) ==
  LET hits == {i \in DOMAIN list : list[i].coffee_type = t}
  IN IF hits = {} THEN NoRecord
     ELSE list[CHOOSE i \in hits : \A j \in hits : i <= j]

\* data.role !== 'admin' is the refusal.
AnyRoleAdmitted(data) == TRUE
IsAdmin(data) == data.role = "admin"

\* disabled={loading} on the submit button of the mounted page.
SubmitAlwaysEnabled(s) == route[s] = PagePath
SubmitEnabled(s) == route[s] = PagePath /\ ~loading[s]

\* .update({ is_active: false }).eq('price_id', currentPrice.price_id)
DeactivateByType(ps, cur) ==
  [i \in DOMAIN ps |->
     IF ps[i].coffee_type = cur.coffee_type
     THEN [ps[i] EXCEPT !.is_active = FALSE] ELSE ps[i]]
DeactivateOld(ps, cur) ==
  [i \in DOMAIN ps |->
     IF ps[i].price_id = cur.price_id
     THEN [ps[i] EXCEPT !.is_active = FALSE] ELSE ps[i]]

\* The row the insert adds: the form's fields, created_by: user.id and
\* is_active: true, under the next price_id.
NewRecordInactive(id, call) ==
  [price_id |-> id, coffee_type |-> call.coffee_type,
   price_per_kg |-> call.price_per_kg, is_active |-> FALSE,
   created_by |-> call.user_id]
NewRecord(id, call) ==
  [price_id |-> id, coffee_type |-> call.coffee_type,
   price_per_kg |-> call.price_per_kg, is_active |-> TRUE,
   created_by |-> call.user_id]

\* fetchPrices: setCurrentPrices(data) unless the select failed.
PricesClearedOnError(old, ok, data) == IF ok THEN data ELSE << >>
PricesAfterFetch(old, ok, data) == IF ok THEN data ELSE old

\* fetchPriceHistory: setPriceHistory(data) unless the select failed.
HistoryAfterFetch(old, ok, data) == IF ok THEN data ELSE old

InFlight(s) == {c \in Slots : calls[s][c].pc # "idle"}
FreeSlot(s) == CHOOSE c \in Slots : calls[s][c].pc = "idle" /\
                 \A d \in Slots : calls[s][d].pc = "idle" => c <= d

\* Rows that the inserts now in flight will add.
PendingInserts ==
  Cardinality({sc \in Sessions \X Slots : calls[sc[1]][sc[2]].pc = "insert"})

\* A store request succeeds or fails; MaxFailures bounds the failures.
Outcome(ok) ==
  /\ ok \/ failures < MaxFailures
  /\ failures' = IF ok THEN failures ELSE failures + 1

\* ------------------------------------------------------------------ Init
\* No page is open.  The first session is the admin's; the second is
\* anyone's.
Init ==
  /\ prices = InitialPrices
  /\ history = << >>
  /\ histActual = << >>
  /\ principal \in {f \in [Sessions -> Principals] : f["s1"] = "alice"}
  /\ route = [s \in Sessions |-> "closed"]
  /\ user = [s \in Sessions |-> NoUser]
  /\ currentPrices = [s \in Sessions |-> << >>]
  /\ priceHistory = [s \in Sessions |-> << >>]
  /\ loading = [s \in Sessions |-> TRUE]
  /\ newPrice = [s \in Sessions |-> DefaultForm]
  /\ cu = [s \in Sessions |-> "idle"]
  /\ fp = [s \in Sessions |-> "idle"]
  /\ fh = [s \in Sessions |-> "idle"]
  /\ calls = [s \in Sessions |-> [c \in Slots |-> IdleCall]]
  /\ failures = 0
  /\ toast = NoToast

\* --------------------------------------------------------------- actions
\* The page mounts and its effect runs: checkUser, fetchPrices and
\* fetchPriceHistory are each called and run to their first await.
LoadPage(s) ==
  /\ route[s] = "closed"
  /\ route' = [route EXCEPT ![s] = PagePath]
  /\ cu' = [cu EXCEPT ![s] = "inflight"]
  /\ fp' = [fp EXCEPT ![s] = "inflight"]
  /\ fh' = [fh EXCEPT ![s] = "inflight"]
  /\ toast' = NoToast
  /\ UNCHANGED <<prices, history, histActual, principal, user, currentPrices,
                 priceHistory, loading, newPrice, calls, failures>>

\* checkUser, from its start to its end.  Its two awaits (auth.getUser,
\* then the users select) are one step: nothing else reads or writes what
\* checkUser holds between them.  ok is the outcome of the users select.
CheckUser(s, ok) ==
  /\ cu[s] = "inflight"
  /\ Outcome(ok \/ principal[s] = "none")
  /\ cu' = [cu EXCEPT ![s] = "done"]
  /\ IF principal[s] = "none"
     THEN /\ route' = [route EXCEPT ![s] = "/login"]
          /\ toast' = NoToast
          /\ user' = user
     ELSE IF ~ok
     THEN /\ toast' = ToastCheckUser
          /\ UNCHANGED <<route, user>>
     ELSE IF ~IsAdmin(Users[principal[s]])
     THEN /\ toast' = ToastAdminRequired
          /\ route' = [route EXCEPT ![s] = "/dashboard"]
          /\ user' = user
     ELSE /\ toast' = NoToast
          /\ user' = [user EXCEPT ![s] = Users[principal[s]]]
          /\ route' = route
  /\ UNCHANGED <<prices, history, histActual, principal, currentPrices,
                 priceHistory, loading, newPrice, fp, fh, calls>>

\* The fetchPrices of the mount, from the answer of its select to its end.
MountFetchPrices(s, ok) ==
  /\ fp[s] = "inflight"
  /\ Outcome(ok)
  /\ fp' = [fp EXCEPT ![s] = "done"]
  /\ \E data \in SortedReads(prices) :
       currentPrices' =
         [currentPrices EXCEPT ![s] = PricesAfterFetch(@, ok, data)]
  /\ toast' = IF ok THEN NoToast ELSE ToastFetchPrices
  /\ UNCHANGED <<prices, history, histActual, principal, route, user,
                 priceHistory, loading, newPrice, cu, fh, calls>>

\* The fetchPriceHistory of the mount, from the answer of its select to
\* its end.
MountFetchHistory(s, ok) ==
  /\ fh[s] = "inflight"
  /\ Outcome(ok)
  /\ fh' = [fh EXCEPT ![s] = "done"]
  /\ priceHistory' =
       [priceHistory EXCEPT ![s] = HistoryAfterFetch(@, ok, HistoryRead(history))]
  /\ loading' = [loading EXCEPT ![s] = FALSE]
  /\ toast' = IF ok THEN NoToast ELSE ToastFetchHistory
  /\ UNCHANGED <<prices, history, histActual, principal, route, user,
                 currentPrices, newPrice, cu, fp, calls>>

\* The admin fills the form with (t, p) and submits it: handleSubmit up to
\* its first await, the insert.  With user still null, user.id throws and
\* the handler ends in its catch and finally.
Submit(s, t, p) ==
  /\ SubmitEnabled(s)
  /\ Len(prices) + PendingInserts < MaxRows
  /\ \E c \in Slots : calls[s][c].pc = "idle"
  /\ newPrice' = [newPrice EXCEPT ![s] = [coffee_type |-> t, price_per_kg |-> p]]
  /\ IF user[s] = NoUser
     THEN /\ toast' = ToastFailure
          /\ loading' = [loading EXCEPT ![s] = FALSE]
          /\ calls' = calls
     ELSE /\ toast' = NoToast
          /\ loading' = [loading EXCEPT ![s] = TRUE]
          /\ calls' = [calls EXCEPT ![s][FreeSlot(s)] =
               [pc |-> "insert", coffee_type |-> t, price_per_kg |-> p,
                currentPrice |-> FindCurrentPrice(currentPrices[s], t),
                user_id |-> user[s].id, inserted |-> 0,
                priorInStore |-> ActiveOfType(prices, t),
                seenAtDeact |-> {}]]
  /\ UNCHANGED <<prices, history, histActual, principal, route, user,
                 currentPrices, priceHistory, cu, fp, fh, failures>>

\* catch and finally of handleSubmit after a failed write.
WriteFailed(s, c) ==
  /\ toast' = ToastFailure
  /\ loading' = [loading EXCEPT ![s] = FALSE]
  /\ calls' = [calls EXCEPT ![s][c] = IdleCall]
  /\ UNCHANGED <<prices, history, histActual, newPrice>>

\* handleSubmit, from the answer of the insert to the next await.
HsInsert(s, c, ok) ==
  LET call == calls[s][c]
      id == Len(prices) + 1
      rec == NewRecord(id, call)
  IN
  /\ call.pc = "insert"
  /\ Outcome(ok)
  /\ IF ~ok THEN WriteFailed(s, c)
     ELSE /\ prices' = Append(prices, rec)
          /\ IF call.currentPrice # NoRecord
             THEN /\ calls' = [calls EXCEPT ![s][c].pc = "deactivate",
                                            ![s][c].inserted = id]
                  /\ toast' = NoToast
                  /\ newPrice' = newPrice
             ELSE /\ calls' = [calls EXCEPT ![s][c].pc = "refreshPrices",
                                            ![s][c].inserted = id]
                  /\ toast' = ToastSuccess
                  /\ newPrice' = [newPrice EXCEPT ![s] = DefaultForm]
          /\ UNCHANGED <<history, histActual, loading>>
  /\ UNCHANGED <<principal, route, user, currentPrices, priceHistory, cu, fp,
                 fh>>

\* handleSubmit, from the answer of the update to the next await.
HsDeactivate(s, c, ok) ==
  LET call == calls[s][c] IN
  /\ call.pc = "deactivate"
  /\ Outcome(ok)
  /\ IF ~ok THEN WriteFailed(s, c)
     ELSE /\ prices' = DeactivateOld(prices, call.currentPrice)
          /\ calls' = [calls EXCEPT ![s][c].pc = "history",
                 ![s][c].seenAtDeact =
                   {i \in DOMAIN prices :
                      prices[i].coffee_type = call.coffee_type}]
          /\ toast' = NoToast
          /\ UNCHANGED <<history, histActual, loading, newPrice>>
  /\ UNCHANGED <<principal, route, user, currentPrices, priceHistory, cu, fp,
                 fh>>

\* handleSubmit, from the answer of the history insert to the next await.
HsHistory(s, c, ok) ==
  LET call == calls[s][c]
      historyRecord ==
        [price_id |-> call.inserted, coffee_type |-> call.coffee_type,
         old_price |-> call.currentPrice.price_per_kg,
         new_price |-> call.price_per_kg, changed_by |-> call.user_id,
         reason |-> "Price update"]
  IN
  /\ call.pc = "history"
  /\ Outcome(ok)
  /\ IF ~ok THEN WriteFailed(s, c)
     ELSE /\ history' = Append(history, historyRecord)
          /\ histActual' = Append(histActual,
               {r.price_per_kg : r \in
                  {x \in ActiveOfType(prices, call.coffee_type) :
                     x.price_id # call.inserted}})
          /\ calls' = [calls EXCEPT ![s][c].pc = "refreshPrices"]
          /\ toast' = ToastSuccess
          /\ newPrice' = [newPrice EXCEPT ![s] = DefaultForm]
          /\ UNCHANGED <<prices, loading>>
  /\ UNCHANGED <<principal, route, user, currentPrices, priceHistory, cu, fp,
                 fh>>

\* handleSubmit's await fetchPrices(), from the answer of the select to
\* the next await.
HsRefreshPrices(s, c, ok) ==
  /\ calls[s][c].pc = "refreshPrices"
  /\ Outcome(ok)
  /\ calls' = [calls EXCEPT ![s][c].pc = "refreshHistory"]
  /\ \E data \in SortedReads(prices) :
       currentPrices' =
         [currentPrices EXCEPT ![s] = PricesAfterFetch(@, ok, data)]
  /\ toast' = IF ok THEN NoToast ELSE ToastFetchPrices
  /\ UNCHANGED <<prices, history, histActual, principal, route, user,
                 priceHistory, loading, newPrice, cu, fp, fh>>

\* handleSubmit's await fetchPriceHistory(), from the answer of the select
\* to the end of handleSubmit.
HsRefreshHistory(s, c, ok) ==
  /\ calls[s][c].pc = "refreshHistory"
  /\ Outcome(ok)
  /\ calls' = [calls EXCEPT ![s][c] = IdleCall]
  /\ priceHistory' =
       [priceHistory EXCEPT ![s] = HistoryAfterFetch(@, ok, HistoryRead(history))]
  /\ loading' = [loading EXCEPT ![s] = FALSE]
  /\ toast' = IF ok THEN NoToast ELSE ToastFetchHistory
  /\ UNCHANGED <<prices, history, histActual, principal, route, user,
                 currentPrices, newPrice, cu, fp, fh>>

Next ==
  \E s \in Sessions :
    \/ LoadPage(s)
    \/ \E ok \in BOOLEAN : CheckUser(s, ok)
    \/ \E ok \in BOOLEAN : MountFetchPrices(s, ok)
    \/ \E ok \in BOOLEAN : MountFetchHistory(s, ok)
    \/ \E t \in CoffeeTypes, p \in FormPrices : Submit(s, t, p)
    \/ \E c \in Slots, ok \in BOOLEAN : HsInsert(s, c, ok)
    \/ \E c \in Slots, ok \in BOOLEAN : HsDeactivate(s, c, ok)
    \/ \E c \in Slots, ok \in BOOLEAN : HsHistory(s, c, ok)
    \/ \E c \in Slots, ok \in BOOLEAN : HsRefreshPrices(s, c, ok)
    \/ \E c \in Slots, ok \in BOOLEAN : HsRefreshHistory(s, c, ok)

Spec == Init /\ [][Next]_vars

\* One session: the second browser never opens the page.
InitSolo ==
  /\ prices = InitialPrices
  /\ history = << >>
  /\ histActual = << >>
  /\ principal \in [Sessions -> Principals]
  /\ principal["s2"] = "none"
  /\ route = [s \in Sessions |-> IF s = "s1" THEN "closed" ELSE "/login"]
  /\ user = [s \in Sessions |-> NoUser]
  /\ currentPrices = [s \in Sessions |-> << >>]
  /\ priceHistory = [s \in Sessions |-> << >>]
  /\ loading = [s \in Sessions |-> TRUE]
  /\ newPrice = [s \in Sessions |-> DefaultForm]
  /\ cu = [s \in Sessions |-> "idle"]
  /\ fp = [s \in Sessions |-> "idle"]
  /\ fh = [s \in Sessions |-> "idle"]
  /\ calls = [s \in Sessions |-> [c \in Slots |-> IdleCall]]
  /\ failures = 0
  /\ toast = NoToast

SpecSolo == InitSolo /\ [][Next]_vars

\* Two admins whose pages have finished mounting: checkUser admitted each,
\* fetchPriceHistory read the empty history, and fetchPrices either read
\* the initial table or failed (of the two sessions, which are alike, s1 is
\* one whose read succeeded if any did).
InitLoaded ==
  /\ prices = InitialPrices
  /\ history = << >>
  /\ histActual = << >>
  /\ principal = [s \in Sessions |-> "alice"]
  /\ route = [s \in Sessions |-> PagePath]
  /\ user = [s \in Sessions |-> Users["alice"]]
  /\ currentPrices \in [Sessions -> {<< >>} \cup SortedReads(InitialPrices)]
  /\ currentPrices["s1"] = << >> => currentPrices["s2"] = << >>
  /\ priceHistory = [s \in Sessions |-> << >>]
  /\ loading = [s \in Sessions |-> FALSE]
  /\ newPrice = [s \in Sessions |-> DefaultForm]
  /\ cu = [s \in Sessions |-> "done"]
  /\ fp = [s \in Sessions |-> "done"]
  /\ fh = [s \in Sessions |-> "done"]
  /\ calls = [s \in Sessions |-> [c \in Slots |-> IdleCall]]
  /\ failures = 0
  /\ toast = NoToast

\* The steps of mounted pages: submits and what they start.
NextSubmits ==
  \E s \in Sessions :
    \/ \E t \in CoffeeTypes, p \in FormPrices : Submit(s, t, p)
    \/ \E c \in Slots, ok \in BOOLEAN : HsInsert(s, c, ok)
    \/ \E c \in Slots, ok \in BOOLEAN : HsDeactivate(s, c, ok)
    \/ \E c \in Slots, ok \in BOOLEAN : HsHistory(s, c, ok)
    \/ \E c \in Slots, ok \in BOOLEAN : HsRefreshPrices(s, c, ok)
    \/ \E c \in Slots, ok \in BOOLEAN : HsRefreshHistory(s, c, ok)

SpecLoaded == InitLoaded /\ [][NextSubmits]_vars

\* ---------------------------------------------------------------- claims
Call(s, c) == calls[s][c]
\* handleSubmit has shown its success notice and is refreshing the lists.
Succeeded(call) == call.pc \in {"refreshPrices", "refreshHistory"}
\* The history rows that carry the price_id of the call's inserted record.
HistoryOf(call) == {i \in DOMAIN history : history[i].price_id = call.inserted}
\* The step ends the call in handleSubmit's catch: a write failed.
WriteFailure(s, c) ==
  /\ Call(s, c).pc \in {"insert", "deactivate", "history"}
  /\ calls'[s][c].pc = "idle"
\* The step is the end of a fetchPrices of session s.
FetchPricesStep(s) ==
  \/ fp[s] = "inflight" /\ fp'[s] = "done"
  \/ \E c \in Slots :
       Call(s, c).pc = "refreshPrices" /\ calls'[s][c].pc = "refreshHistory"
\* The step is the end of a fetchPriceHistory of session s.
FetchHistoryStep(s) ==
  \/ fh[s] = "inflight" /\ fh'[s] = "done"
  \/ \E c \in Slots :
       Call(s, c).pc = "refreshHistory" /\ calls'[s][c].pc = "idle"
\* Active records of type t that no in-flight submit is about to deactivate.
Settled(t) ==
  {r \in ActiveOfType(prices, t) :
     \A s \in Sessions, c \in Slots :
       ~(Call(s, c).pc = "deactivate"
         /\ Call(s, c).currentPrice.price_id = r.price_id)}
InitialCount(t) == Cardinality(ActiveOfType(InitialPrices, t))

\* C1: in the state a successful submitNewPrice leaves (its success notice
\* just shown), exactly one record of the submitted coffee_type is active.
\* Stated as claimed; the code violates it.
C1_ExactlyOneActiveAfterSubmit ==
  \A s \in Sessions, c \in Slots :
    (Succeeded(Call(s, c)) /\ toast = ToastSuccess)
      => ActiveCount(Call(s, c).coffee_type) = 1

\* C2: a session whose User row has a role other than admin issues neither
\* fetchPrices nor fetchPriceHistory and holds no fetched data, and once
\* its role has been read (no request having failed) it is on /dashboard.
\* Stated as claimed; the code violates it.
C2_NonAdminFetchesNothing ==
  \A s \in Sessions :
    (principal[s] # "none" /\ ~IsAdmin(Users[principal[s]])) =>
      /\ fp[s] = "idle" /\ fh[s] = "idle"
      /\ currentPrices[s] = << >> /\ priceHistory[s] = << >>
      /\ (cu[s] = "done" /\ failures = 0) => route[s] = "/dashboard"

\* C3: a successful submitNewPrice that started while the store held an
\* active record of the submitted type has created exactly one history
\* row, with that record's price as old_price and the submitted price as
\* new_price.  Stated as claimed; the code violates it.
C3_OneHistoryRowForPrior ==
  \A s \in Sessions, c \in Slots :
    (Succeeded(Call(s, c)) /\ Call(s, c).priorInStore # {}) =>
      /\ Cardinality(HistoryOf(Call(s, c))) = 1
      /\ \A i \in HistoryOf(Call(s, c)) :
           /\ history[i].old_price \in
                {r.price_per_kg : r \in Call(s, c).priorInStore}
           /\ history[i].new_price = Call(s, c).price_per_kg

C4_State ==
  \A s \in Sessions, c \in Slots :
    (Call(s, c).pc # "idle" /\ Call(s, c).priorInStore = {}) =>
      /\ Call(s, c).currentPrice = NoRecord
      /\ Call(s, c).pc \notin {"deactivate", "history"}
      /\ Call(s, c).inserted # 0 => HistoryOf(Call(s, c)) = {}
C4_Step ==
  \A s \in Sessions, c \in Slots :
    (/\ Call(s, c).pc # "idle"
     /\ Call(s, c).priorInStore = {}
     /\ calls'[s][c] # calls[s][c]) =>
      /\ history' = history
      /\ \/ prices' = prices
         \/ /\ Call(s, c).pc = "insert"
            /\ prices' = Append(prices,
                 [price_id |-> Len(prices) + 1,
                  coffee_type |-> newPrice[s].coffee_type,
                  price_per_kg |-> newPrice[s].price_per_kg,
                  is_active |-> TRUE, created_by |-> user[s].id])
\* C4: a submitNewPrice that started while the store held no active record
\* of the submitted type never deactivates and never writes a history row:
\* it found no current price, it never reaches the update or the history
\* insert, no history row carries its record, and the only step of it that
\* changes the store appends its new active record to coffee_prices.
C4_NoPriorOnlyInserts == [](C4_State) /\ [][C4_Step]_vars
\* C4's case: such a submit has succeeded; both rows are active, no
\* history row exists.
C4_Witness ==
  \E s \in Sessions, c \in Slots :
    /\ Succeeded(Call(s, c))
    /\ Call(s, c).priorInStore = {}
    /\ Len(prices) = 2 /\ prices[1].is_active /\ prices[2].is_active
    /\ prices[2].coffee_type # prices[1].coffee_type
    /\ history = << >>

C5_State ==
  \A s \in Sessions :
    /\ InFlight(s) # {} => user[s] # NoUser
    /\ user[s] # NoUser =>
         /\ cu[s] = "done"
         /\ principal[s] # "none"
         /\ user[s] = Users[principal[s]]
         /\ user[s].role = "admin"
C5_Step ==
  /\ (prices' # prices \/ history' # history) =>
       \E s \in Sessions, c \in Slots :
         /\ Call(s, c).pc \in {"insert", "deactivate", "history"}
         /\ calls'[s][c] # calls[s][c]
         /\ user[s].role = "admin"
         /\ Call(s, c).user_id = user[s].id
  /\ \A s \in Sessions :
       (user[s] = NoUser /\ newPrice'[s] # newPrice[s]) =>
         /\ prices' = prices /\ history' = history
         /\ calls' = calls
         /\ toast' = ToastFailure
\* C5: handleSubmit writes only for an admitted admin: a session with a
\* submit in flight holds a user, a held user is the session's own User row
\* stored by a finished checkUser and has role admin, every step that
\* changes a table is a write step of such a session, and a submit made
\* while no user is held changes no table, starts nothing and shows the
\* failure notice.
C5_OnlyAdminsWrite == [](C5_State) /\ [][C5_Step]_vars
\* C5's case: a non-admin whose gate is still pending has submitted; the
\* failure notice shows and the store is as it was.
C5_Witness ==
  \E s \in Sessions :
    /\ principal[s] = "bob" /\ cu[s] = "inflight"
    /\ user[s] = NoUser
    /\ newPrice[s] # DefaultForm
    /\ toast = ToastFailure
    /\ prices = InitialPrices /\ history = << >>

C6_StepCommon ==
  \A s \in Sessions, c \in Slots :
    WriteFailure(s, c) =>
      /\ toast' = ToastFailure
      /\ prices' = prices /\ history' = history
      /\ newPrice'[s] = newPrice[s] /\ newPrice[s] # DefaultForm
      /\ ~loading'[s]
      /\ Call(s, c).pc = "insert" => Call(s, c).inserted = 0
      /\ Call(s, c).pc = "deactivate" =>
           /\ HistoryOf(Call(s, c)) = {}
           /\ Call(s, c).inserted \in DOMAIN prices
      /\ Call(s, c).pc = "history" =>
           /\ ~prices'[Call(s, c).currentPrice.price_id].is_active
           /\ HistoryOf(Call(s, c)) = {}
\* C6: a failed write of handleSubmit shows the failure notice, ends the
\* handler with no further write, rolls nothing back, shows no success
\* notice and leaves the form as submitted; after a failed deactivation no
\* history row carries the new record and the type has two active records;
\* after a failed history insert the old record is still deactivated.
\* Stated as claimed; the code violates it.
C6_FailedWriteLeavesTwoActive ==
  [][/\ C6_StepCommon
     /\ \A s \in Sessions, c \in Slots :
          (WriteFailure(s, c) /\ Call(s, c).pc = "deactivate") =>
            Cardinality(ActiveOfType(prices', Call(s, c).coffee_type)) = 2]_vars
\* The rest of C6, which the code keeps: the same with "at least two
\* active records" for "two".
C6_FailedWriteNoRollback ==
  [][/\ C6_StepCommon
     /\ \A s \in Sessions, c \in Slots :
          (WriteFailure(s, c) /\ Call(s, c).pc = "deactivate") =>
            Cardinality(ActiveOfType(prices', Call(s, c).coffee_type)) >= 2]_vars

\* Two submits of different sessions that took the same active record as
\* current price, whose inserts were both in the table before either
\* deactivated, and that both reached the success notice.
Raced(a, b) ==
  /\ Succeeded(a) /\ Succeeded(b)
  /\ a.currentPrice # NoRecord
  /\ a.currentPrice = b.currentPrice
  /\ b.inserted \in a.seenAtDeact
  /\ a.inserted \in b.seenAtDeact
\* C7: two such submits leave both new records active together, the old
\* one they shared inactive.
C7_RaceLeavesTwoActive ==
  \A s1 \in Sessions : \A s2 \in Sessions \ {s1}, c1 \in Slots, c2 \in Slots :
    Raced(Call(s1, c1), Call(s2, c2)) =>
      /\ prices[Call(s1, c1).inserted].is_active
      /\ prices[Call(s2, c2).inserted].is_active
      /\ ~prices[Call(s1, c1).currentPrice.price_id].is_active
      /\ ActiveCount(Call(s1, c1).coffee_type) >= 2
\* C7's case: such a pair with exactly two active records, and a history
\* row whose old_price is the price of no record of its type that was
\* active, its own new record apart, when the row was committed.
C7_Witness ==
  /\ \E s1 \in Sessions : \E s2 \in Sessions \ {s1}, c1 \in Slots, c2 \in Slots :
       /\ Raced(Call(s1, c1), Call(s2, c2))
       /\ ActiveCount(Call(s1, c1).coffee_type) = 2
  /\ \E i \in DOMAIN history :
       histActual[i] # {} /\ history[i].old_price \notin histActual[i]

C8_State ==
  \A s \in Sessions :
    /\ loading[s] <=> (InFlight(s) # {} \/ fh[s] # "done")
    /\ Cardinality(InFlight(s)) <= 1
C8_Step ==
  \A s \in Sessions :
    /\ (InFlight(s) # {} /\ InFlight(s)' = {}) => ~loading'[s]
    /\ (InFlight(s) # {} /\ InFlight(s)' # {}) => loading'[s]
\* C8: loading is true exactly while the mount's fetchPriceHistory or a
\* handleSubmit is unfinished, so it is true from the start of a submit to
\* the end of its last step on every path and false once the submit has
\* ended, and a session never has two handleSubmit invocations in flight.
C8_BusyWhileSubmitting == [](C8_State) /\ [][C8_Step]_vars
\* C8's case: a submit that wrote a history row is at its last step, the
\* refresh of the history, and loading is still true.
C8_Witness ==
  \E s \in Sessions, c \in Slots :
    /\ Call(s, c).pc = "refreshHistory"
    /\ loading[s]
    /\ Len(history) = 1

C9_StepCommon ==
  \A s \in Sessions :
    /\ (FetchPricesStep(s) \/ FetchHistoryStep(s)) =>
         prices' = prices /\ history' = history
    /\ (FetchPricesStep(s) /\ failures' # failures) =>
         currentPrices'[s] = currentPrices[s] /\ toast' = ToastFetchPrices
    /\ (FetchHistoryStep(s) /\ failures' # failures) =>
         priceHistory'[s] = priceHistory[s] /\ toast' = ToastFetchHistory
    /\ FetchHistoryStep(s) => ~loading'[s]
\* C9 as claimed: neither read changes a table; a failed read leaves its
\* list as it was and shows its error notice; each of the two reads clears
\* loading on success and on failure.
C9_BothReadsClearLoading ==
  [][/\ C9_StepCommon
     /\ \A s \in Sessions : FetchPricesStep(s) => ~loading'[s]]_vars
\* C9 as amended: the same, but only fetchPriceHistory clears loading;
\* fetchPrices leaves loading as it is.
C9_ReadsKeepStoreAndLists ==
  [][/\ C9_StepCommon
     /\ \A s \in Sessions : FetchPricesStep(s) => loading'[s] = loading[s]]_vars
\* C9's case: the fetchPrices of a submit's refresh has just failed; the
\* list it feeds still holds rows and loading is still true.
C9_Witness ==
  \E s \in Sessions, c \in Slots :
    /\ Call(s, c).pc = "refreshHistory"
    /\ toast = ToastFetchPrices
    /\ \A u \in Sessions \ {s} : fp[u] # "done"
    /\ currentPrices[s] # << >>
    /\ loading[s]

C10_StepCommon ==
  \A t \in CoffeeTypes :
    ActiveCount(t)' < ActiveCount(t) =>
      /\ ActiveCount(t)' = ActiveCount(t) - 1
      /\ \E s \in Sessions, c \in Slots :
           /\ Call(s, c).pc = "deactivate" /\ calls'[s][c].pc = "history"
           /\ Call(s, c).coffee_type = t
           /\ Call(s, c).inserted \in DOMAIN prices
           /\ prices[Call(s, c).inserted].coffee_type = t
C10_StateCommon ==
  \A t \in CoffeeTypes :
    /\ ActiveCount(t) >= InitialCount(t)
    /\ (\E i \in DOMAIN prices : prices[i].coffee_type = t) =>
         ActiveCount(t) >= 1
\* C10 as claimed: the active records of a type never number fewer than
\* initially; a step lowers the number by at most one and only as the
\* update of a submit whose own insert of that type is already in the
\* table; a type that has a record has an active one; and a type with two
\* or more active records never returns to exactly one.
C10_NeverBackToOne ==
  /\ [](C10_StateCommon)
  /\ [][C10_StepCommon]_vars
  /\ [][\A t \in CoffeeTypes :
          ActiveCount(t) >= 2 => ActiveCount(t)' # 1]_vars
\* C10 as amended: the same, its last part replaced: the active records of
\* a type that no in-flight submit is about to deactivate never become
\* fewer (so two or more of them never return to one).
C10_SettledNeverShrinks ==
  /\ [](C10_StateCommon)
  /\ [][C10_StepCommon]_vars
  /\ [][\A t \in CoffeeTypes :
          Cardinality(Settled(t))' >= Cardinality(Settled(t))]_vars
\* C10's case: a type has two active records that no submit is about to
\* deactivate, and a record that a submit has deactivated.
C10_Witness ==
  \E t \in CoffeeTypes :
    /\ Cardinality(Settled(t)) >= 2
    /\ \E i \in DOMAIN prices :
         prices[i].coffee_type = t /\ ~prices[i].is_active

====
